---- MODULE Spec2Model ----
(***************************************************************************)
(* Model of the conversation store (core/conversations_db.py) and of the  *)
(* three-phase pass that drives it (bot.py, main.py).                      *)
(*                                                                         *)
(* The store is a row store: insert_data appends one row, update_data     *)
(* rewrites every row matching its WHERE condition, and every statement   *)
(* is committed on its own (core/database/database_manager.py).  The       *)
(* columns of a table are those the statements of conversations_db.py      *)
(* name; the constraints are those of its CREATE TABLE statement.          *)
(***************************************************************************)
EXTENDS Integers, Sequences, FiniteSets, TLC

(* ------------------------------ bounds -------------------------------- *)
MaxMsgs == 2          \* emails in the store
MaxPs == 2            \* ps_list rows per conversation (processing cycles)
MaxReplies == 2       \* prepared_replies rows per conversation
MaxTime == 1          \* the clock runs over 0..MaxTime
MaxReminders == 1     \* num_reminders values 0..MaxReminders
MaxKill == 5          \* a kill falls after 1..MaxKill statements of a call
MaxKills == 1         \* kills of the process of a pass

Convs == {1, 2}       \* ids of the rows of table conversations
Times == 0..MaxTime
NULL == -1            \* SQL NULL / Python None for a number or a datetime
NoPolicy == "NULL"    \* SQL NULL / Python None for last_policy
NoBody == ""          \* Python None or '' for a reply text (both falsy)
Bodies == {"body"}
Roles == {"user", "assistant"}
Sources == {"step1", "step3"}

\* The bot will try these policies in this order.
REMINDER_POLICIES ==
    << "BestPolicy", "ImmediateResponsePolicy", "WaitForSchedulePolicy",
       "EarlyReminderPolicy", "LateReminderPolicy", "SecondReminderPolicy",
       "AskAgentPolicy", "DefaultPolicy" >>

RESTART == FALSE

VARIABLES
    emails,            \* [Convs -> Seq([role, analyzed, processed])]
    reply_needed,      \* [Convs -> BOOLEAN], column conversations.reply_needed
    schedules,         \* [Convs -> Seq([timestamp, num_reminders, last_policy])]
    ps_list,           \* [Convs -> Seq([status, source, completed_at])]
    prepared_replies,  \* [Convs -> Seq([reply_subject, reply_message])]
    now,               \* datetime.now()
    pc,                \* where the pass (main.py) stands
    todo,              \* the conversations a phase fetched and has not handled yet
    running,           \* Bot.running_conversations
    any_errors,        \* any_errors of the running phase
    rn,                \* manage_reminders' local reply_needed
    tracked,           \* conversations get_scheduled_conversations tracked in this pass
    last,              \* how the last pass ended
    fresh,             \* conversations that got a PreparedReply in this pass
    answered,          \* what the last PreparedReply of a conversation answered
    kills,             \* how often the process of a pass was killed
    ret,               \* the direct call of a store operation or of a policy: arguments and result
    runs,              \* two overlapping runs inside _start_tracking
    round              \* what the last round of the loop of step 1 or step 3 did

store == << emails, reply_needed, schedules, ps_list, prepared_replies >>
bot == << pc, todo, running, any_errors, rn, tracked, fresh, last >>
vars == << emails, reply_needed, schedules, ps_list, prepared_replies, now,
           pc, todo, running, any_errors, rn, tracked, last, fresh, answered,
           kills, ret, runs, round >>
aside == << kills, ret, runs, round >>

(* ------------------------- the store as a value ----------------------- *)
\* fuel is the number of statements the running process still commits
\* before it is killed; Alive is more than any call needs.
Alive == 99

DB(f) ==
    [ emails |-> emails, reply_needed |-> reply_needed, schedules |-> schedules,
      ps_list |-> ps_list, prepared_replies |-> prepared_replies, fuel |-> f ]

\* One committed statement (insert_data / update_data): table f becomes v.
Put(d, f, v) ==
    IF d.fuel = 0 THEN d ELSE [d EXCEPT ![f] = v, !.fuel = d.fuel - 1]

conversation_subject(c) == 100 + c

\* The orders in which a query can return the conversations of S
\* (ORDER BY sorting_timestamp, a column of the emails).
Orders(S) ==
    { q \in [1..Cardinality(S) -> S] : \A i, j \in DOMAIN q : i # j => q[i] # q[j] }

Range(s) == { s[i] : i \in DOMAIN s }

(* ------------------------------ queries ------------------------------- *)
\* WHERE status != 'completed' OR completed_at IS NULL
IsActive(row) == row.status # "completed" \/ row.completed_at = NULL

ActiveRows(d, c) == { i \in DOMAIN d.ps_list[c] : IsActive(d.ps_list[c][i]) }

all_processes_completed(d) == \A c \in Convs : ActiveRows(d, c) = {}

all_replies_sent(d) == \A c \in Convs : d.prepared_replies[c] = << >>

\* conversations with at least one email WHERE analyzed = 0
Unanalyzed(d) ==
    { c \in Convs : \E i \in DOMAIN d.emails[c] : ~d.emails[c][i].analyzed }

\* conversations WHERE reply_needed = 1
NeedingReply(d) == { c \in Convs : d.reply_needed[c] }

\* conversations with a schedules row WHERE datetime(timestamp) < datetime('now')
Due(d, t) ==
    { c \in Convs : \E i \in DOMAIN d.schedules[c] :
          /\ d.schedules[c][i].timestamp # NULL
          /\ d.schedules[c][i].timestamp < t }

(* ------------------------- internal operations ------------------------ *)
NewProcess(source) ==
    [status |-> "not_started", source |-> source, completed_at |-> NULL]

RECURSIVE InsertProcesses(_, _, _)
InsertProcesses(d, ids, source) ==
    IF ids = << >> THEN d
    ELSE InsertProcesses(
             Put(d, "ps_list",
                 [d.ps_list EXCEPT ![Head(ids)] = Append(@, NewProcess(source))]),
             Tail(ids), source)

\* A tracking that skips the conversations with an active process and
\* tracks the others.
RECURSIVE InsertFree(_, _, _)
InsertFree(d, ids, source) ==
    IF ids = << >> THEN d
    ELSE InsertFree(
             IF ActiveRows(d, Head(ids)) = {}
             THEN InsertProcesses(d, << Head(ids) >>, source)
             ELSE d,
             Tail(ids), source)

start_tracking_partial(d, ids, source) ==
    [d |-> InsertFree(d, ids, source),
     ok |-> \A c \in Range(ids) : ActiveRows(d, c) = {}]

\* A tracking that does not look for active processes.
start_tracking_unchecked(d, ids, source) ==
    [d |-> InsertProcesses(d, ids, source), ok |-> TRUE]

start_tracking(d, ids, source) ==
    IF \A c \in Range(ids) : ActiveRows(d, c) = {}
    THEN [d |-> InsertProcesses(d, ids, source), ok |-> TRUE]
    ELSE [d |-> d, ok |-> FALSE]

SetStatus(rows, status) ==
    [i \in DOMAIN rows |-> [rows[i] EXCEPT !.status = status]]

SetCompletedAt(rows, t) ==
    [i \in DOMAIN rows |-> [rows[i] EXCEPT !.completed_at = t]]

\* Both UPDATEs carry the condition conversation_id = c and nothing else.
update_conversation_process_status(d, c, status, t) ==
    IF Cardinality(ActiveRows(d, c)) = 1
    THEN LET d1 == Put(d, "ps_list",
                       [d.ps_list EXCEPT ![c] = SetStatus(@, status)])
             d2 == IF status = "completed"
                   THEN Put(d1, "ps_list",
                            [d1.ps_list EXCEPT ![c] = SetCompletedAt(@, t)])
                   ELSE d1
         IN [d |-> d2, ok |-> TRUE]
    ELSE [d |-> d, ok |-> FALSE]

SetColumn(rows, col, v) == [i \in DOMAIN rows |-> [rows[i] EXCEPT ![col] = v]]

ScheduleRow(ts, num, pol) ==
    [timestamp |-> ts, num_reminders |-> num, last_policy |-> pol]

UpdateScheduleRows(d, c, ts, num, pol) ==
    LET d1 == IF ts # NULL
              THEN Put(d, "schedules",
                       [d.schedules EXCEPT ![c] = SetColumn(@, "timestamp", ts)])
              ELSE d
        d2 == IF num # NULL
              THEN Put(d1, "schedules",
                       [d1.schedules EXCEPT ![c] = SetColumn(@, "num_reminders", num)])
              ELSE d1
        d3 == IF pol # NoPolicy
              THEN Put(d2, "schedules",
                       [d2.schedules EXCEPT ![c] = SetColumn(@, "last_policy", pol)])
              ELSE d2
    IN d3

\* schedules.timestamp is TEXT NOT NULL: only the INSERT that carries the
\* timestamp goes through.
InsertScheduleRows(d, c, ts, num, pol) ==
    IF ts # NULL
    THEN Put(d, "schedules",
             [d.schedules EXCEPT ![c] = Append(@, ScheduleRow(ts, NULL, NoPolicy))])
    ELSE d

\* The INSERT of a row with num_reminders or last_policy and no timestamp
\* raises sqlite3.IntegrityError, which execute_query raises again.
InsertRaises(num, pol) == num # NULL \/ pol # NoPolicy

\* An _update_schedule whose three INSERTs all go through.
update_schedule_rows_unconstrained(d, c, ts, num, pol) ==
    IF Len(d.schedules[c]) = 1
    THEN [d |-> UpdateScheduleRows(d, c, ts, num, pol), ok |-> TRUE,
          raised |-> FALSE]
    ELSE IF Len(d.schedules[c]) = 0
    THEN LET d1 == InsertScheduleRows(d, c, ts, num, pol)
             d2 == IF num # NULL
                   THEN Put(d1, "schedules",
                            [d1.schedules EXCEPT
                                ![c] = Append(@, ScheduleRow(NULL, num, NoPolicy))])
                   ELSE d1
         IN [d |-> d2, ok |-> TRUE, raised |-> FALSE]
    ELSE [d |-> d, ok |-> FALSE, raised |-> FALSE]

update_schedule_rows(d, c, ts, num, pol) ==
    IF Len(d.schedules[c]) = 1
    THEN [d |-> UpdateScheduleRows(d, c, ts, num, pol), ok |-> TRUE,
          raised |-> FALSE]
    ELSE IF Len(d.schedules[c]) = 0
    THEN [d |-> InsertScheduleRows(d, c, ts, num, pol),
          ok |-> ~InsertRaises(num, pol), raised |-> InsertRaises(num, pol)]
    ELSE [d |-> d, ok |-> FALSE, raised |-> FALSE]

\* id is the primary key of conversations: the SELECT finds exactly one row.
update_conversation_reply_needed_flag(d, c, flag) ==
    [d |-> Put(d, "reply_needed", [d.reply_needed EXCEPT ![c] = flag]),
     ok |-> TRUE]

\* A reply saved under the subject of another conversation.
save_reply_other_subject(d, c, reply_message) ==
    [d |-> Put(d, "prepared_replies",
               [d.prepared_replies EXCEPT
                   ![c] = Append(@, [reply_subject |-> conversation_subject(c + 1),
                                     reply_message |-> reply_message])]),
     ok |-> TRUE]

save_reply(d, c, reply_message) ==
    [d |-> Put(d, "prepared_replies",
               [d.prepared_replies EXCEPT
                   ![c] = Append(@, [reply_subject |-> conversation_subject(c),
                                     reply_message |-> reply_message])]),
     ok |-> TRUE]

\* An update of the analyzed flags that sets the processed flags too.
analyzed_flags_with_processed(d, c) ==
    IF \E i \in DOMAIN d.emails[c] : ~d.emails[c][i].analyzed
    THEN [d |-> Put(d, "emails",
                    [d.emails EXCEPT
                        ![c] = SetColumn(SetColumn(@, "analyzed", TRUE),
                                         "processed", TRUE)]),
          ok |-> TRUE]
    ELSE [d |-> d, ok |-> FALSE]

update_emails_analyzed_flags(d, c) ==
    IF \E i \in DOMAIN d.emails[c] : ~d.emails[c][i].analyzed
    THEN [d |-> Put(d, "emails",
                    [d.emails EXCEPT ![c] = SetColumn(@, "analyzed", TRUE)]),
          ok |-> TRUE]
    ELSE [d |-> d, ok |-> FALSE]

\* An update of the processed flags that reports success and writes nothing.
processed_flags_skipped(d, c) == [d |-> d, ok |-> TRUE]

\* An update of the processed flags that takes the analyzed flags back.
processed_flags_clearing_analyzed(d, c) ==
    IF \E i \in DOMAIN d.emails[c] : ~d.emails[c][i].processed
    THEN [d |-> Put(d, "emails",
                    [d.emails EXCEPT
                        ![c] = SetColumn(SetColumn(@, "processed", TRUE),
                                         "analyzed", FALSE)]),
          ok |-> TRUE]
    ELSE [d |-> d, ok |-> FALSE]

update_emails_processed_flags(d, c) ==
    IF \E i \in DOMAIN d.emails[c] : ~d.emails[c][i].processed
    THEN [d |-> Put(d, "emails",
                    [d.emails EXCEPT ![c] = SetColumn(@, "processed", TRUE)]),
          ok |-> TRUE]
    ELSE [d |-> d, ok |-> FALSE]

(* ------------------------- compound operations ------------------------ *)
\* An update that does not count the ProcessRecord among its sub-steps.
update_without_process_status(d, c, new_schedule, new_reply_needed, t) ==
    LET r1 == IF new_schedule # NULL
              THEN update_schedule_rows(d, c, new_schedule, NULL, NoPolicy)
              ELSE [d |-> d, ok |-> TRUE, raised |-> FALSE]
        r2 == update_emails_analyzed_flags(r1.d, c)
        r3 == update_conversation_reply_needed_flag(r2.d, c, new_reply_needed)
        r5 == IF new_reply_needed
              THEN [d |-> r3.d, ok |-> TRUE]
              ELSE update_emails_processed_flags(r3.d, c)
    IN [d |-> r5.d, ok |-> r1.ok /\ r2.ok /\ r3.ok /\ r5.ok, raised |-> FALSE]

update_data_after_analysis(d, c, new_schedule, new_reply_needed, t) ==
    LET r1 == IF new_schedule # NULL
              THEN update_schedule_rows(d, c, new_schedule, NULL, NoPolicy)
              ELSE [d |-> d, ok |-> TRUE, raised |-> FALSE]
        r2 == update_emails_analyzed_flags(r1.d, c)
        r3 == update_conversation_reply_needed_flag(r2.d, c, new_reply_needed)
        r4 == IF new_reply_needed
              THEN update_conversation_process_status(r3.d, c, "analyzed", t)
              ELSE update_conversation_process_status(r3.d, c, "completed", t)
        r5 == IF new_reply_needed
              THEN [d |-> r4.d, ok |-> TRUE]
              ELSE update_emails_processed_flags(r4.d, c)
    IN IF r1.raised THEN [d |-> r1.d, ok |-> FALSE, raised |-> TRUE]
       ELSE [d |-> r5.d, ok |-> r1.ok /\ r2.ok /\ r3.ok /\ r5.ok /\ r4.ok,
             raised |-> FALSE]

update_data_after_step2(d, c, reply_message, t) ==
    LET r1 == save_reply(d, c, reply_message)
        r2 == update_conversation_reply_needed_flag(r1.d, c, FALSE)
        r3 == update_emails_processed_flags(r2.d, c)
        r4 == update_conversation_process_status(r3.d, c, "completed", t)
    IN [d |-> r4.d, ok |-> r1.ok /\ r2.ok /\ r3.ok /\ r4.ok]

update_schedule(d, c, new_schedule, reply_message, num_reminders, last_policy, t) ==
    LET r1 == IF reply_message # NoBody
              THEN save_reply(d, c, reply_message)
              ELSE [d |-> d, ok |-> TRUE]
        r2 == update_schedule_rows(r1.d, c, new_schedule, num_reminders, last_policy)
        r3 == update_conversation_process_status(r2.d, c, "completed", t)
    IN IF r2.raised THEN [d |-> r2.d, ok |-> FALSE, raised |-> TRUE]
       ELSE [d |-> r3.d, ok |-> r1.ok /\ r2.ok /\ r3.ok, raised |-> FALSE]

\* ids is the order in which the query returned the conversations.
get_unanalyzed_conversations(d, track, ids) ==
    IF track
    THEN LET r == start_tracking(d, ids, "step1")
         IN [d |-> r.d, ok |-> r.ok, batch |-> ids]
    ELSE [d |-> d, ok |-> TRUE, batch |-> ids]

get_conversations_needing_reply(d, ids) == [d |-> d, ok |-> TRUE, batch |-> ids]

get_scheduled_conversations(d, track, ids) ==
    IF track
    THEN LET r == start_tracking(d, ids, "step3")
         IN [d |-> r.d, ok |-> r.ok, batch |-> ids]
    ELSE [d |-> d, ok |-> TRUE, batch |-> ids]


(* ------------------------------ policies ------------------------------ *)
\* ReminderPolicy.process_schedule takes (schedule, just_got_user_mail,
\* messages, now); manage_reminders passes (conversation_id, schedule,
\* messages, now, num_reminders_sent, last_policy).
PolicyParams == 4
CallArgs == 6

\* No class of scheduling.py has the attribute name that manage_reminders
\* reads after the call and in its except clause.
PolicyHasName == FALSE

\* What process_schedule of a policy can do when its signature is met:
\* raise (an assertion fails, NotImplementedError) or answer.
PolicyResults(name) ==
    CASE name = "BestPolicy" -> {"raise"}
      [] name = "ImmediateResponsePolicy" -> {"raise", "ask"}
      [] name = "WaitForSchedulePolicy" -> {"raise", "false", "ask"}
      [] name = "EarlyReminderPolicy" -> {"raise", "true", "false"}
      [] name = "LateReminderPolicy" -> {"raise", "true"}
      [] name = "SecondReminderPolicy" -> {"raise", "true"}
      [] name = "AskAgentPolicy" -> {"ask"}
      [] OTHER -> {"true"}

\* What the call of manage_reminders can do: a TypeError when the number of
\* arguments is not the number of parameters.
process_schedule(name) ==
    IF CallArgs # PolicyParams THEN {"raise"} ELSE PolicyResults(name)

Outcome(kind, value, name) == [kind |-> kind, value |-> value, name |-> name]

\* The loop over REMINDER_POLICIES: the first policy that does not raise is
\* applied.  Reading reminder_policy.name raises AttributeError: in the try
\* block it is caught, in the except clause it ends manage_reminders.
RECURSIVE TryPolicies(_)
TryPolicies(i) ==
    IF i > Len(REMINDER_POLICIES) THEN {Outcome("none", "none", NoPolicy)}
    ELSE IF ~PolicyHasName THEN {Outcome("crash", "none", NoPolicy)}
    ELSE UNION { IF x = "raise" THEN TryPolicies(i + 1)
                 ELSE {Outcome("applied", x, REMINDER_POLICIES[i])} :
                 x \in process_schedule(REMINDER_POLICIES[i]) }

\* The policies a conversation's schedule, messages and time can make the
\* first of REMINDER_POLICIES not to raise, each with its answer.
RECURSIVE FirstApplicable(_)
FirstApplicable(i) ==
    IF i > Len(REMINDER_POLICIES) THEN {}
    ELSE UNION { IF x = "raise" THEN FirstApplicable(i + 1)
                 ELSE {[name |-> REMINDER_POLICIES[i], value |-> x]} :
                 x \in PolicyResults(REMINDER_POLICIES[i]) }

\* How many policies the loop called before it ended.
Tried(out) ==
    IF out.kind = "crash" THEN 1
    ELSE IF out.kind = "none" THEN Len(REMINDER_POLICIES)
    ELSE CHOOSE i \in DOMAIN REMINDER_POLICIES : REMINDER_POLICIES[i] = out.name

\* A round of a loop of the pass: the conversation, the policy whose
\* assertions hold first for it and its answer, the answer of
\* analyze_conversation for its messages, the number of policies the round
\* called, whether it called analyze_conversation, and the email_body that
\* generate_response returned in a round of manage_running_conversations.
Round(c, app, verdict, tried, asked) ==
    [c |-> c, policy |-> app.name, answer |-> app.value, verdict |-> verdict,
     tried |-> tried, asked |-> asked, body |-> "unbound"]

NoApplicable == [name |-> NoPolicy, value |-> "none"]

NoRound == Round(0, NoApplicable, "none", 0, FALSE)

Round2(c, email_body) ==
    [Round(c, NoApplicable, "none", 0, FALSE) EXCEPT !.body = email_body]

(* ---------------------------- collaborators --------------------------- *)
\* What a fetch hands to the bot for one conversation: the id, the shape of
\* the message list, the number of its messages from the user and the
\* num_reminders of the schedule.
Kind(msgs) ==
    IF msgs = << >> THEN "empty"
    ELSE IF msgs[Len(msgs)].role = "assistant" THEN "last_bot"
    ELSE IF Len(msgs) = 1 THEN "first_user"
    ELSE "other"

Entry(d, c) ==
    [c |-> c, kind |-> Kind(d.emails[c]),
     inbound |-> Cardinality({ i \in DOMAIN d.emails[c] :
                                   d.emails[c][i].role = "user" }),
     num |-> IF d.schedules[c] = << >> THEN NULL
             ELSE d.schedules[c][1].num_reminders]

Entries(d, ids) == [i \in DOMAIN ids |-> Entry(d, ids[i])]

Verdict(v, s) == [verdict |-> v, s |-> s]

\* A scheduler that sends the first user mail to the LLM like any other.
first_mail_to_llm(kind) == FALSE

\* Always respond to first user mail: one message, not from the bot.
first_user_mail(kind) == kind = "first_user"

\* analyze_conversation: an error, a reply that is due, or a time for which
\* the reply is scheduled; the deterministic checks come first.
OracleResults(kind) ==
    CASE kind = "empty" -> {Verdict("error", NULL)}
      [] kind = "last_bot" -> {Verdict("notdue", s) : s \in Times \cup {NULL}}
      [] first_user_mail(kind) -> {Verdict("due", NULL)}
      [] OTHER -> {Verdict("error", NULL), Verdict("due", NULL)}
                      \cup {Verdict("notdue", s) : s \in Times}

\* generate_response: a text, or nothing when the generation failed.
GeneratorResults == Bodies \cup {NoBody}

(* ------------------------------- the pass ----------------------------- *)
Commit(d) ==
    /\ emails' = d.emails
    /\ reply_needed' = d.reply_needed
    /\ schedules' = d.schedules
    /\ ps_list' = d.ps_list
    /\ prepared_replies' = d.prepared_replies

Fuel == {Alive} \cup (1..MaxKill)

\* f is the fuel of the step that was taken.
Killed(f) ==
    /\ kills' = IF f = Alive THEN kills ELSE kills + 1
    /\ f # Alive => kills < MaxKills

\* Rows stay within the bounds of the model.
RoomForEmail ==
    Cardinality({ m \in Convs \X (1..MaxMsgs) : m[2] \in DOMAIN emails[m[1]] })
        < MaxMsgs
RoomForProcesses(ids) == \A i \in DOMAIN ids : Len(ps_list[ids[i]]) < MaxPs
RoomForReply(c) == Len(prepared_replies[c]) < MaxReplies

\* What a PreparedReply answers: the messages the generator was given and
\* the Schedule row of the conversation.
Basis(e) == [inbound |-> e.inbound, schedule |-> schedules[e.c]]
NoBasis == [inbound |-> NULL, schedule |-> << >>]
Appended(d) ==
    { c \in Convs : Len(d.prepared_replies[c]) > Len(prepared_replies[c]) }

Record(d, e) ==
    answered' = [c \in Convs |->
                    IF c \in Appended(d) THEN Basis(e) ELSE answered[c]]

\* The process of the pass is gone: main returned, raised, or was killed.
EndPass(how) ==
    /\ pc' = "idle"
    /\ todo' = << >>
    /\ running' = {}
    /\ any_errors' = FALSE
    /\ rn' = "unbound"
    /\ tracked' = {}
    /\ fresh' = {}
    /\ last' = how

MainReturns ==
    /\ pc = "idle"
    /\ \/ ~all_replies_sent(DB(Alive))
       \/ ~all_processes_completed(DB(Alive)) /\ ~RESTART
    /\ UNCHANGED vars

\* A main that does not ask whether all replies were sent.
main_without_reply_guard ==
    /\ pc = "idle"
    /\ all_processes_completed(DB(Alive)) \/ RESTART
    /\ pc' = "step1"
    /\ last' = "running"
    /\ round' = NoRound
    /\ UNCHANGED << store, now, todo, running, any_errors, rn, tracked, fresh,
                    answered, kills, ret, runs >>

MainStarts ==
    /\ pc = "idle"
    /\ all_replies_sent(DB(Alive))
    /\ all_processes_completed(DB(Alive)) \/ RESTART
    /\ pc' = "step1"
    /\ last' = "running"
    /\ round' = NoRound
    /\ UNCHANGED << store, now, todo, running, any_errors, rn, tracked, fresh,
                    answered, kills, ret, runs >>

\* analyze_conversations, up to its loop
Step1Fetch(F) ==
    /\ pc = "step1"
    /\ \E ids \in Orders(Unanalyzed(DB(Alive))), f \in F :
        LET r == get_unanalyzed_conversations(DB(f), TRUE, ids)
        IN /\ Killed(f)
           /\ RoomForProcesses(ids)
           /\ Commit(r.d)
           /\ IF f # Alive THEN EndPass("killed")
              ELSE IF ~r.ok \/ ids = << >>
              THEN /\ pc' = "step2"
                   /\ UNCHANGED << todo, running, any_errors, rn, tracked,
                                   fresh, last >>
              ELSE /\ pc' = "step1_loop"
                   /\ todo' = Entries(r.d, ids)
                   /\ any_errors' = FALSE
                   /\ UNCHANGED << running, rn, tracked, fresh, last >>
    /\ UNCHANGED << now, answered, ret, runs, round >>

\* An analysis whose error leaves the conversation without a reply.
reply_needed_fail_closed(res) == res.verdict = "due"

\* reply_needed and new_schedule of a round of analyze_conversations
ReplyNeeded(res) == res.verdict \in {"error", "due"}

NewSchedule(res) == IF res.verdict = "notdue" THEN res.s ELSE NULL

\* one round of the loop of analyze_conversations
Step1Loop(F) ==
    /\ pc = "step1_loop"
    /\ todo # << >>
    /\ \E res \in OracleResults(Head(todo).kind), f \in F :
        LET c == Head(todo).c
            new_reply_needed == ReplyNeeded(res)
            new_schedule == NewSchedule(res)
            r == update_data_after_analysis(DB(f), c, new_schedule,
                                            new_reply_needed, now)
        IN /\ Killed(f)
           /\ Commit(r.d)
           /\ IF f # Alive THEN EndPass("killed")
              ELSE /\ todo' = Tail(todo)
                   /\ running' = IF r.ok THEN running \cup {c} ELSE running
                   /\ any_errors' = (any_errors \/ ~r.ok)
                   /\ UNCHANGED << pc, rn, tracked, fresh, last >>
           /\ round' = Round(c, NoApplicable, res.verdict, 0, TRUE)
    /\ UNCHANGED << now, answered, ret, runs >>

\* analyze_conversations returns any_errors to main
Step1Done ==
    /\ pc = "step1_loop"
    /\ todo = << >>
    /\ IF any_errors THEN EndPass("errors1")
       ELSE /\ pc' = "step2"
            /\ UNCHANGED << todo, running, any_errors, rn, tracked, fresh, last >>
    /\ UNCHANGED << store, now, answered, aside >>

\* manage_running_conversations, up to its loop
Step2Fetch ==
    /\ pc = "step2"
    /\ \E ids \in Orders(NeedingReply(DB(Alive))) :
        LET r == get_conversations_needing_reply(DB(Alive), ids)
        IN IF r.batch = << >>
           THEN /\ pc' = "step3"
                /\ any_errors' = FALSE
                /\ UNCHANGED << todo, running, rn, tracked, fresh, last >>
           ELSE /\ pc' = "step2_loop"
                /\ todo' = Entries(r.d, r.batch)
                /\ any_errors' = FALSE
                /\ UNCHANGED << running, rn, tracked, fresh, last >>
    /\ UNCHANGED << store, now, answered, aside >>

\* A round that takes the conversation off the list when no reply was
\* generated.
respond_clearing_flag(d, c, email_body, t) ==
    IF email_body = NoBody
    THEN [d |-> update_conversation_reply_needed_flag(d, c, FALSE).d, ok |-> FALSE]
    ELSE update_data_after_step2(d, c, email_body, t)

\* What a round of manage_running_conversations does with email_body: a
\* failed generation touches nothing and counts as an error.
Respond(d, c, email_body, t) ==
    IF email_body = NoBody THEN [d |-> d, ok |-> FALSE]
    ELSE update_data_after_step2(d, c, email_body, t)

\* one round of the loop of manage_running_conversations
Step2Loop(F) ==
    /\ pc = "step2_loop"
    /\ todo # << >>
    /\ \E email_body \in GeneratorResults, f \in F :
        LET c == Head(todo).c
            r == Respond(DB(f), c, email_body, now)
        IN /\ Killed(f)
           /\ email_body # NoBody => RoomForReply(c)
           /\ Commit(r.d)
           /\ Record(r.d, Head(todo))
           /\ IF f # Alive THEN EndPass("killed")
              ELSE /\ todo' = Tail(todo)
                   /\ running' = IF r.ok THEN running \cup {c} ELSE running
                   /\ any_errors' = (any_errors \/ ~r.ok)
                   /\ fresh' = fresh \cup Appended(r.d)
                   /\ UNCHANGED << pc, rn, tracked, last >>
           /\ round' = Round2(c, email_body)
    /\ UNCHANGED << now, ret, runs >>

\* A main that goes on to manage_reminders whatever step 2 returned.
Step2Done_ignoring_errors ==
    /\ pc = "step2_loop"
    /\ todo = << >>
    /\ pc' = "step3"
    /\ UNCHANGED << todo, running, any_errors, rn, tracked, fresh, last >>
    /\ UNCHANGED << store, now, answered, aside >>

\* manage_running_conversations returns any_errors to main
Step2Done ==
    /\ pc = "step2_loop"
    /\ todo = << >>
    /\ IF any_errors THEN EndPass("errors2")
       ELSE /\ pc' = "step3"
            /\ UNCHANGED << todo, running, any_errors, rn, tracked, fresh, last >>
    /\ UNCHANGED << store, now, answered, aside >>

\* manage_reminders, up to its loop; len(False) raises TypeError
Step3Fetch(F) ==
    /\ pc = "step3"
    /\ \E ids \in Orders(Due(DB(Alive), now)), f \in F :
        LET r == get_scheduled_conversations(DB(f), TRUE, ids)
        IN /\ Killed(f)
           /\ r.ok => RoomForProcesses(ids)
           /\ Commit(r.d)
           /\ IF f # Alive THEN EndPass("killed")
              ELSE IF ~r.ok THEN EndPass("crashed")
              ELSE /\ pc' = "step3_loop"
                   /\ todo' = Entries(r.d, ids)
                   /\ tracked' = Range(ids)
                   /\ UNCHANGED << running, any_errors, rn, fresh, last >>
    /\ round' = NoRound
    /\ UNCHANGED << now, answered, ret, runs >>

\* A loop that skips only the conversations without messages.
skipped_without_running(e) == e.kind = "empty"

\* no messages, or handled in step 1 or step 2 of this pass
Skipped(e) == e.kind = "empty" \/ e.c \in running

\* reply_message and awareness_timestamp of update_schedule receive
\* num_reminders_sent and applied_policy: a reply_message that is not falsy
\* goes to _save_reply, where applied_policy.isoformat() raises.
Truthy(num) == num # NULL /\ num # 0

\* The rest of a round of manage_reminders once reply_needed is decided:
\* value is "true", "false", "ask" or "unbound".
Remind(d, e, value, res, email_body, t) ==
    IF value = "unbound" THEN [d |-> d, rn |-> "unbound", end |-> "crashed"]
    ELSE IF value = "false" THEN [d |-> d, rn |-> "false", end |-> "continue"]
    ELSE IF value = "ask" /\ Truthy(e.num)
    THEN [d |-> d, rn |-> "false", end |-> "crashed"]
    ELSE LET new_schedule == IF res.verdict = "notdue" THEN res.s ELSE NULL
             needed == IF value = "ask" THEN res.verdict = "due" ELSE TRUE
             r1 == IF value = "ask"
                   THEN update_schedule(d, e.c, new_schedule, NoBody, NULL,
                                        NoPolicy, t)
                   ELSE [d |-> d, ok |-> TRUE, raised |-> FALSE]
             r2 == IF needed /\ email_body # NoBody
                   THEN update_data_after_step2(r1.d, e.c, email_body, t)
                   ELSE r1
         IN IF r1.raised THEN [d |-> r1.d, rn |-> "false", end |-> "crashed"]
            ELSE [d |-> r2.d, rn |-> IF needed THEN "true" ELSE "false",
                  end |-> "continue"]

\* one round of the loop of manage_reminders
Step3Loop(F) ==
    /\ pc = "step3_loop"
    /\ todo # << >>
    /\ \E out \in TryPolicies(1), app \in FirstApplicable(1),
          res \in OracleResults(Head(todo).kind),
          email_body \in GeneratorResults, f \in F :
        LET e == Head(todo)
            skip == Skipped(e)
            value == IF out.kind = "applied" THEN out.value ELSE rn
            r == IF skip THEN [d |-> DB(f), rn |-> rn, end |-> "continue"]
                 ELSE IF out.kind = "crash"
                 THEN [d |-> DB(f), rn |-> rn, end |-> "crashed"]
                 ELSE Remind(DB(f), e, value, res, email_body, now)
        IN /\ Killed(f)
           /\ out.kind = "applied" => app = [name |-> out.name, value |-> out.value]
           /\ round' = IF skip THEN Round(e.c, NoApplicable, "none", 0, FALSE)
                       ELSE Round(e.c, app, res.verdict, Tried(out),
                                  out.kind # "crash" /\ value = "ask")
           /\ \A c \in Appended(r.d) : RoomForReply(c)
           /\ Commit(r.d)
           /\ Record(r.d, Head(todo))
           /\ IF f # Alive THEN EndPass("killed")
              ELSE IF r.end = "crashed" THEN EndPass("crashed")
              ELSE /\ todo' = Tail(todo)
                   /\ rn' = r.rn
                   /\ fresh' = fresh \cup Appended(r.d)
                   /\ UNCHANGED << pc, running, any_errors, tracked, last >>
    /\ UNCHANGED << now, ret, runs >>

\* manage_reminders and main return
Step3Done ==
    /\ pc = "step3_loop"
    /\ todo = << >>
    /\ EndPass("completed")
    /\ UNCHANGED << store, now, answered, aside >>

\* The process of the pass is killed between two statements.
Kill ==
    /\ pc # "idle"
    /\ kills < MaxKills
    /\ kills' = kills + 1
    /\ EndPass("killed")
    /\ UNCHANGED << store, now, answered, ret, runs, round >>

(* ----------------------------- environment ---------------------------- *)
\* A new email of the conversation is stored: analyzed and processed
\* default to 0.
NewEmail ==
    /\ RoomForEmail
    /\ \E c \in Convs, role \in Roles :
        /\ emails' = [emails EXCEPT
               ![c] = Append(@, [role |-> role, analyzed |-> FALSE,
                                 processed |-> FALSE])]
    /\ UNCHANGED << reply_needed, schedules, ps_list, prepared_replies, now,
                    bot, answered, aside >>

\* The prepared replies are sent and leave the table.
SendReplies ==
    /\ \E c \in Convs : prepared_replies[c] # << >>
    /\ prepared_replies' = [c \in Convs |-> << >>]
    /\ UNCHANGED << emails, reply_needed, schedules, ps_list, now, bot,
                    answered, aside >>

\* Time is read once per pass: the clock moves between two passes.
Tick ==
    /\ pc = "idle"
    /\ now < MaxTime
    /\ now' = now + 1
    /\ UNCHANGED << store, bot, answered, aside >>

(* ------------------------- the pass, run by run ----------------------- *)
Call(op, c, s, r, body, num, pol, batch, source, ok, raised) ==
    [op |-> op, c |-> c, s |-> s, r |-> r, body |-> body, num |-> num,
     pol |-> pol, batch |-> batch, source |-> source, ok |-> ok,
     raised |-> raised]

NoCall ==
    Call("none", 0, NULL, FALSE, NoBody, NULL, NoPolicy, << >>, "none", TRUE, FALSE)

Run(at, ids, source, left, ok) ==
    [pc |-> at, ids |-> ids, source |-> source, left |-> left, ok |-> ok]

NoRun == Run("idle", << >>, "none", << >>, FALSE)

Init ==
    /\ emails = [c \in Convs |-> << >>]
    /\ reply_needed = [c \in Convs |-> FALSE]
    /\ schedules = [c \in Convs |-> << >>]
    /\ ps_list = [c \in Convs |-> << >>]
    /\ prepared_replies = [c \in Convs |-> << >>]
    /\ now = 0
    /\ pc = "idle"
    /\ todo = << >>
    /\ running = {}
    /\ any_errors = FALSE
    /\ rn = "unbound"
    /\ tracked = {}
    /\ last = "none"
    /\ fresh = {}
    /\ answered = [c \in Convs |-> NoBasis]
    /\ kills = 0
    /\ ret = NoCall
    /\ runs = [p \in {1, 2} |-> NoRun]
    /\ round = NoRound

Next ==
    \/ MainReturns
    \/ MainStarts
    \/ Step1Fetch({Alive})
    \/ Step1Loop({Alive})
    \/ Step1Done
    \/ Step2Fetch
    \/ Step2Loop({Alive})
    \/ Step2Done
    \/ Step3Fetch({Alive})
    \/ Step3Loop({Alive})
    \/ Step3Done
    \/ NewEmail
    \/ SendReplies
    \/ Tick

Spec == Init /\ [][Next]_vars

\* The pass when its process can be killed after any statement.
NextKill ==
    \/ Next
    \/ Step1Fetch(Fuel)
    \/ Step1Loop(Fuel)
    \/ Step2Loop(Fuel)
    \/ Step3Fetch(Fuel)
    \/ Step3Loop(Fuel)
    \/ Kill

SpecKill == Init /\ [][NextKill]_vars

(* ----------------------- the policies, called ------------------------- *)
\* A datetime: the day (its ordinal and its day of the month) and the hour.
\* The days are 30 and 31 January, 1 February and 4 March of one year.
Days ==
    { [ord |-> 0, dom |-> 30], [ord |-> 1, dom |-> 31], [ord |-> 2, dom |-> 1],
      [ord |-> 33, dom |-> 4] }
HoursOfDay == {8, 10, 11, 18}
Instants == { [day |-> d, hour |-> h] : d \in Days, h \in HoursOfDay }

\* hours between the epoch and t: what a difference of two datetimes counts
Hours(t) == t.day.ord * 24 + t.hour

\* Ages of the last message of a conversation, in hours.
Ages == {1, 6, 7}

\* Offsets of the user's time zone from the local one, in hours.
Offsets == {0 - 2, 0}

\* What messages holds: email.message.Message objects (Date and From are
\* header strings), mappings with a datetime under Date, or the rows
\* get_scheduled_conversations returns (keys id, date, role, body,
\* sorting_timestamp).
Formats == {"Message", "datetime", "row"}

\* The arguments of process_schedule(schedule, just_got_user_mail,
\* messages, now), schedule being (user, subject, due_time, reminder_sent):
\* age is now minus the Date of the last message, from_user says whether
\* From of the message the policy looks at is the user of the schedule.
Arguments ==
    [ now : Instants, due_time : Instants, age : Ages, offset : Offsets,
      just_got_user_mail : BOOLEAN, from_user : BOOLEAN,
      reminder_sent : {NULL, 0, 1, 2}, messages : Formats ]

max_delay == 6             \* WaitForSchedulePolicy.max_delay, hours
reminder_time == 9         \* EarlyReminderPolicy.reminder_time
second_waiting_time == 3   \* SecondReminderPolicy.waiting_time, hours
late_waiting_time == 1     \* LateReminderPolicy.waiting_time, hours

\* get_current_user_time(user_message, now).hour
user_hour(x) == (x.now.hour + x.offset) % 24

DefaultPolicy(x) == "true"

AskAgentPolicy(x) == "ask"

EarlyReminderPolicy(x) ==
    IF x.due_time.day.ord # x.now.day.ord THEN "raise"
    ELSE IF x.messages = "row" \/ ~x.from_user THEN "raise"
    ELSE IF x.messages # "Message" THEN "raise"
    ELSE IF user_hour(x) >= reminder_time THEN "true" ELSE "false"

SecondReminderPolicy(x) ==
    IF x.just_got_user_mail THEN "raise"
    ELSE IF Hours(x.now) - Hours(x.due_time) < second_waiting_time THEN "raise"
    ELSE IF x.reminder_sent # NULL /\ x.reminder_sent >= 2 THEN "raise"
    ELSE "true"

\* A first reminder that is due only after more than waiting_time.
late_reminder_strict(x) ==
    IF x.just_got_user_mail THEN "raise"
    ELSE IF Hours(x.now) - Hours(x.due_time) <= late_waiting_time THEN "raise"
    ELSE IF Truthy(x.reminder_sent) THEN "raise"
    ELSE "true"

LateReminderPolicy(x) ==
    IF x.just_got_user_mail THEN "raise"
    ELSE IF Hours(x.now) - Hours(x.due_time) < late_waiting_time THEN "raise"
    ELSE IF Truthy(x.reminder_sent) THEN "raise"
    ELSE "true"

\* messages[-1]["Date"] is missing from a row; now minus a header string
\* raises TypeError; schedule_ahead compares the days of the month.
WaitForSchedulePolicy(x) ==
    IF x.messages = "row" THEN "raise"
    ELSE IF x.just_got_user_mail THEN "raise"
    ELSE IF x.messages = "Message" THEN "raise"
    ELSE IF ~(x.age > max_delay) THEN "raise"
    ELSE IF x.due_time.day.dom - x.now.day.dom > 0 THEN "false" ELSE "ask"

ImmediateResponsePolicy(x) == IF x.just_got_user_mail THEN "ask" ELSE "raise"

BestPolicy(x) == "raise"

\* policy.process_schedule(schedule, just_got_user_mail, messages, now)
Answer(name, x) ==
    CASE name = "BestPolicy" -> BestPolicy(x)
      [] name = "ImmediateResponsePolicy" -> ImmediateResponsePolicy(x)
      [] name = "WaitForSchedulePolicy" -> WaitForSchedulePolicy(x)
      [] name = "EarlyReminderPolicy" -> EarlyReminderPolicy(x)
      [] name = "LateReminderPolicy" -> LateReminderPolicy(x)
      [] name = "SecondReminderPolicy" -> SecondReminderPolicy(x)
      [] name = "AskAgentPolicy" -> AskAgentPolicy(x)
      [] OTHER -> DefaultPolicy(x)

Trial(how, x, name, out, tried) ==
    [op |-> how, x |-> x, policy |-> name, out |-> out, tried |-> tried]

\* ScheduleProcessor.process_schedule with the arguments of the signature
CallPolicy ==
    /\ ret = NoCall
    /\ \E x \in Arguments, i \in DOMAIN REMINDER_POLICIES :
        ret' = Trial("process_schedule", x, REMINDER_POLICIES[i],
                     Answer(REMINDER_POLICIES[i], x), 1)
    /\ UNCHANGED << store, now, bot, answered, kills, runs, round >>

\* The loop of manage_reminders over REMINDER_POLICIES for a conversation
\* whose schedule, messages and time are those of x, called as bot.py
\* calls it.
CallLoop ==
    /\ ret = NoCall
    /\ \E x \in Arguments, out \in TryPolicies(1) :
        ret' = Trial("manage_reminders", x, out.name,
                     IF out.kind = "applied" THEN out.value ELSE out.kind,
                     Tried(out))
    /\ UNCHANGED << store, now, bot, answered, kills, runs, round >>

Return ==
    /\ ret # NoCall
    /\ ret' = NoCall
    /\ UNCHANGED << store, now, bot, answered, kills, runs, round >>

NextPolicy ==
    \/ CallPolicy
    \/ CallLoop
    \/ Return

SpecPolicy == Init /\ [][NextPolicy]_vars

(* --------------------------- overlapping runs -------------------------- *)
\* A second invocation of main that passed the guards on the same store
\* reaches get_unanalyzed_conversations(track=True) first.
OtherRunTracks ==
    /\ pc = "step1"
    /\ runs[2] = NoRun
    /\ \E ids \in Orders(Unanalyzed(DB(Alive))) :
        LET r == get_unanalyzed_conversations(DB(Alive), TRUE, ids)
        IN /\ ids # << >>
           /\ RoomForProcesses(ids)
           /\ Commit(r.d)
           /\ runs' = [runs EXCEPT ![2] = Run("done", ids, "step1", << >>, r.ok)]
    /\ UNCHANGED << now, bot, answered, kills, ret, round >>

NextOverlap ==
    \/ Next
    \/ OtherRunTracks

SpecOverlap == Init /\ [][NextOverlap]_vars

\* A second invocation of main, started on the same store with nothing to
\* analyze and nothing to answer, reaches
\* get_scheduled_conversations(track=True) first.
OtherRunTracksScheduled ==
    /\ pc = "step3"
    /\ runs[2] = NoRun
    /\ all_replies_sent(DB(Alive))
    /\ all_processes_completed(DB(Alive))
    /\ Unanalyzed(DB(Alive)) = {}
    /\ NeedingReply(DB(Alive)) = {}
    /\ \E ids \in Orders(Due(DB(Alive), now)) :
        LET r == get_scheduled_conversations(DB(Alive), TRUE, ids)
        IN /\ ids # << >>
           /\ RoomForProcesses(ids)
           /\ Commit(r.d)
           /\ runs' = [runs EXCEPT ![2] = Run("done", ids, "step3", << >>, r.ok)]
    /\ UNCHANGED << now, bot, answered, kills, ret, round >>

NextOverlapScheduled ==
    \/ Next
    \/ OtherRunTracksScheduled

SpecOverlapScheduled == Init /\ [][NextOverlapScheduled]_vars

\* A second invocation of main that passed the guards on the same store is
\* in manage_running_conversations while this one is: it fetched a
\* conversation with reply_needed = 1 and runs its round for it.
OtherRunResponds ==
    /\ pc \in {"step2", "step2_loop"}
    /\ runs[2] = NoRun
    /\ \E c \in NeedingReply(DB(Alive)), email_body \in GeneratorResults :
        LET r == Respond(DB(Alive), c, email_body, now)
        IN /\ email_body # NoBody => RoomForReply(c)
           /\ Commit(r.d)
           /\ runs' = [runs EXCEPT ![2] = Run("done", << c >>, "step2", << >>, r.ok)]
    /\ UNCHANGED << now, bot, answered, kills, ret, round >>

NextOverlapReplies ==
    \/ Next
    \/ OtherRunResponds

SpecOverlapReplies == Init /\ [][NextOverlapReplies]_vars

(* --------------------- the store called directly ---------------------- *)
\* One call of a store operation from outside the pass (a test, a script,
\* an operator), with any arguments, on any store the pass produces: the
\* store between two passes and the store before each round of a loop (a
\* fetch that found nothing and the return of a phase leave the store as it
\* is).
CallPoint ==
    /\ ret = NoCall
    /\ pc = "idle" \/ todo # << >>

SomeIds == UNION { Orders(S) : S \in SUBSET Convs }

StartTracking ==
    /\ CallPoint
    /\ \E ids \in SomeIds, source \in Sources :
        LET r == start_tracking(DB(Alive), ids, source)
        IN /\ RoomForProcesses(ids)
           /\ Commit(r.d)
           /\ ret' = Call("_start_tracking", 0, NULL, TRUE, NoBody, NULL,
                          NoPolicy, ids, source, r.ok, FALSE)
    /\ UNCHANGED << now, bot, answered, kills, runs, round >>

GetUnanalyzed ==
    /\ CallPoint
    /\ \E track \in BOOLEAN, ids \in Orders(Unanalyzed(DB(Alive))) :
        LET r == get_unanalyzed_conversations(DB(Alive), track, ids)
        IN /\ RoomForProcesses(ids)
           /\ Commit(r.d)
           /\ ret' = Call("get_unanalyzed_conversations", 0, NULL, track,
                          NoBody, NULL, NoPolicy, r.batch, "step1", r.ok, FALSE)
    /\ UNCHANGED << now, bot, answered, kills, runs, round >>

GetScheduled ==
    /\ CallPoint
    /\ \E track \in BOOLEAN, ids \in Orders(Due(DB(Alive), now)) :
        LET r == get_scheduled_conversations(DB(Alive), track, ids)
        IN /\ RoomForProcesses(ids)
           /\ Commit(r.d)
           /\ ret' = Call("get_scheduled_conversations", 0, NULL, track,
                          NoBody, NULL, NoPolicy, r.batch, "step3", r.ok, FALSE)
    /\ UNCHANGED << now, bot, answered, kills, runs, round >>

UpdateAfterAnalysis ==
    /\ CallPoint
    /\ \E c \in Convs, s \in Times \cup {NULL}, new_reply_needed \in BOOLEAN :
        LET r == update_data_after_analysis(DB(Alive), c, s, new_reply_needed, now)
        IN /\ Commit(r.d)
           /\ ret' = Call("update_data_after_analysis", c, s, new_reply_needed,
                          NoBody, NULL, NoPolicy, << >>, "none", r.ok,
                          r.raised)
    /\ UNCHANGED << now, bot, answered, kills, runs, round >>

UpdateAfterStep2 ==
    /\ CallPoint
    /\ \E c \in Convs, body \in Bodies :
        LET r == update_data_after_step2(DB(Alive), c, body, now)
        IN /\ RoomForReply(c)
           /\ Commit(r.d)
           /\ ret' = Call("update_data_after_step2", c, NULL, FALSE, body,
                          NULL, NoPolicy, << >>, "none", r.ok, FALSE)
    /\ UNCHANGED << now, bot, answered, kills, runs, round >>

UpdateSchedule ==
    /\ CallPoint
    /\ \E c \in Convs, s \in Times \cup {NULL}, body \in Bodies \cup {NoBody},
          num \in (0..MaxReminders) \cup {NULL},
          pol \in {"DefaultPolicy", NoPolicy} :
        LET r == update_schedule(DB(Alive), c, s, body, num, pol, now)
        IN /\ body # NoBody => RoomForReply(c)
           /\ Commit(r.d)
           /\ ret' = Call("update_schedule", c, s, FALSE, body, num, pol,
                          << >>, "none", r.ok, r.raised)
    /\ UNCHANGED << now, bot, answered, kills, runs, round >>

\* The pass, and at any of its call points one direct call: of a tracking
\* operation, of update_data_after_analysis, of update_data_after_step2, of
\* update_schedule.
NextTracking ==
    \/ ret = NoCall /\ Next
    \/ StartTracking
    \/ GetUnanalyzed
    \/ GetScheduled

SpecTracking == Init /\ [][NextTracking]_vars

NextAnalysis ==
    \/ ret = NoCall /\ Next
    \/ UpdateAfterAnalysis

SpecAnalysis == Init /\ [][NextAnalysis]_vars

NextStep2 ==
    \/ ret = NoCall /\ Next
    \/ UpdateAfterStep2

SpecStep2 == Init /\ [][NextStep2]_vars

NextSchedule ==
    \/ ret = NoCall /\ Next
    \/ UpdateSchedule

SpecSchedule == Init /\ [][NextSchedule]_vars

(* ------------------ calls on a store with any schedules ---------------- *)
\* Table schedules has no constraint on conversation_id: a conversation
\* can have no row, one row or several.
ScheduleProfiles ==
    { << >>, << ScheduleRow(0, NULL, NoPolicy) >>,
      << ScheduleRow(0, NULL, NoPolicy), ScheduleRow(1, NULL, NoPolicy) >> }

InitSchedules ==
    /\ schedules \in [Convs -> ScheduleProfiles]
    /\ \E tracking \in SUBSET Convs :
        /\ ps_list = [c \in Convs |-> IF c \in tracking
                                       THEN << NewProcess("step1") >> ELSE << >>]
        /\ emails = [c \in Convs |-> IF c \in tracking
                                      THEN << [role |-> "user", analyzed |-> FALSE,
                                               processed |-> FALSE] >>
                                      ELSE << >>]
    /\ reply_needed = [c \in Convs |-> FALSE]
    /\ prepared_replies = [c \in Convs |-> << >>]
    /\ now = 0
    /\ pc = "idle"
    /\ todo = << >>
    /\ running = {}
    /\ any_errors = FALSE
    /\ rn = "unbound"
    /\ tracked = {}
    /\ last = "none"
    /\ fresh = {}
    /\ answered = [c \in Convs |-> NoBasis]
    /\ kills = 0
    /\ ret = NoCall
    /\ runs = [p \in {1, 2} |-> NoRun]
    /\ round = NoRound

\* The call has returned; the next one comes later.
ReturnLater ==
    /\ ret # NoCall
    /\ now < MaxTime
    /\ ret' = NoCall
    /\ now' = now + 1
    /\ UNCHANGED << store, bot, answered, kills, runs, round >>

\* Calls of update_data_after_analysis and update_schedule, one after the
\* other.
NextSchedules ==
    \/ UpdateAfterAnalysis
    \/ UpdateSchedule
    \/ ReturnLater

SpecSchedules == InitSchedules /\ [][NextSchedules]_vars

(* ------------------- two runs inside _start_tracking ------------------ *)
\* Every statement of _start_tracking is committed on its own: the SELECT of
\* the active processes and each INSERT are separate steps of a run.
Email(role, analyzed, processed) ==
    [role |-> role, analyzed |-> analyzed, processed |-> processed]

\* What a conversation looks like when a run starts: nothing yet, a first
\* email, a completed cycle with a due schedule, the same with a new email,
\* a first email whose run was killed after its INSERT.
Profiles ==
    { [emails |-> << >>, schedules |-> << >>, ps_list |-> << >>],
      [emails |-> << Email("user", FALSE, FALSE) >>, schedules |-> << >>,
       ps_list |-> << >>],
      [emails |-> << Email("user", TRUE, TRUE) >>,
       schedules |-> << ScheduleRow(0, NULL, NoPolicy) >>,
       ps_list |-> << [status |-> "completed", source |-> "step1",
                       completed_at |-> 0] >>],
      [emails |-> << Email("user", TRUE, TRUE), Email("user", FALSE, FALSE) >>,
       schedules |-> << ScheduleRow(0, NULL, NoPolicy) >>,
       ps_list |-> << [status |-> "completed", source |-> "step1",
                       completed_at |-> 0] >>],
      [emails |-> << Email("user", FALSE, FALSE) >>, schedules |-> << >>,
       ps_list |-> << NewProcess("step1") >>] }

InitRace ==
    /\ \E profile \in [Convs -> Profiles] :
        /\ emails = [c \in Convs |-> profile[c].emails]
        /\ schedules = [c \in Convs |-> profile[c].schedules]
        /\ ps_list = [c \in Convs |-> profile[c].ps_list]
    /\ reply_needed = [c \in Convs |-> FALSE]
    /\ prepared_replies = [c \in Convs |-> << >>]
    /\ now = 1
    /\ pc = "idle"
    /\ todo = << >>
    /\ running = {}
    /\ any_errors = FALSE
    /\ rn = "unbound"
    /\ tracked = {}
    /\ last = "none"
    /\ fresh = {}
    /\ answered = [c \in Convs |-> NoBasis]
    /\ kills = 0
    /\ ret = NoCall
    /\ runs = [p \in {1, 2} |-> NoRun]
    /\ round = NoRound

\* the query of get_unanalyzed_conversations or get_scheduled_conversations
RunFetch ==
    /\ \E p \in {1, 2}, source \in Sources :
        /\ runs[p].pc = "idle"
        /\ \E ids \in Orders(IF source = "step1" THEN Unanalyzed(DB(Alive))
                             ELSE Due(DB(Alive), now)) :
            runs' = [runs EXCEPT ![p] = Run("fetched", ids, source, << >>, FALSE)]
    /\ UNCHANGED << store, now, bot, answered, kills, ret, round >>

\* active_processes_query
RunSelect ==
    /\ \E p \in {1, 2} :
        /\ runs[p].pc = "fetched"
        /\ runs' = [runs EXCEPT ![p] =
               IF \A c \in Range(runs[p].ids) : ActiveRows(DB(Alive), c) = {}
               THEN Run("inserting", @.ids, @.source, @.ids, FALSE)
               ELSE Run("done", @.ids, @.source, << >>, FALSE)]
    /\ UNCHANGED << store, now, bot, answered, kills, ret, round >>

\* insert_data("ps_list", data) for the next conversation of the batch
RunInsert ==
    /\ \E p \in {1, 2} :
        /\ runs[p].pc = "inserting"
        /\ runs[p].left # << >>
        /\ ps_list' = [ps_list EXCEPT ![Head(runs[p].left)] =
                          Append(@, NewProcess(runs[p].source))]
        /\ runs' = [runs EXCEPT ![p].left = Tail(@)]
    /\ UNCHANGED << emails, reply_needed, schedules, prepared_replies, now, bot,
                    answered, kills, ret, round >>

\* return True
RunReturn ==
    /\ \E p \in {1, 2} :
        /\ runs[p].pc = "inserting"
        /\ runs[p].left = << >>
        /\ runs' = [runs EXCEPT ![p] = Run("done", @.ids, @.source, << >>, TRUE)]
    /\ UNCHANGED << store, now, bot, answered, kills, ret, round >>

NextRace ==
    \/ RunFetch
    \/ RunSelect
    \/ RunInsert
    \/ RunReturn

SpecRace == InitRace /\ [][NextRace]_vars

(* ------------------------ the pass, kept running ---------------------- *)
\* main is invoked again and again, every step of a pass that is not killed
\* is taken, and the prepared replies are sent.
Progress ==
    \/ MainStarts
    \/ Step1Fetch({Alive})
    \/ Step1Loop({Alive})
    \/ Step1Done
    \/ Step2Fetch
    \/ Step2Loop({Alive})
    \/ Step2Done
    \/ Step3Fetch({Alive})
    \/ Step3Loop({Alive})
    \/ Step3Done
    \/ SendReplies

SpecFair == Init /\ [][NextKill]_vars /\ WF_vars(Progress)

(* ------------------- the pass, collaborators succeeding --------------- *)
\* analyze_conversation returns a verdict and generate_response a text:
\* no round of step 1 ends with an error of the scheduler and no round of
\* step 2 without a reply.
CollaboratorsSucceed == round.verdict # "error" /\ round.body # NoBody

NextSucceeding ==
    \/ MainReturns
    \/ MainStarts
    \/ Step1Fetch({Alive})
    \/ Step1Loop({Alive}) /\ CollaboratorsSucceed'
    \/ Step1Done
    \/ Step2Fetch
    \/ Step2Loop({Alive}) /\ CollaboratorsSucceed'
    \/ Step2Done
    \/ Step3Fetch({Alive})
    \/ Step3Loop({Alive}) /\ CollaboratorsSucceed'
    \/ Step3Done
    \/ NewEmail
    \/ SendReplies
    \/ Tick

SpecSucceeding == Init /\ [][NextSucceeding]_vars

(* ------------------------------ properties ---------------------------- *)
Open(c) == ActiveRows(DB(Alive), c)

Called(op) == ret.op = "none" /\ ret'.op = op

\* C1: in every reachable state every conversation has at most one
\* non-completed ProcessRecord (status != 'completed' or completed_at NULL).
C1_OneOpenRecord == \A c \in Convs : Cardinality(Open(c)) <= 1

\* C2: a tracking call (_start_tracking, or a fetch with track=True) for a
\* batch with an active process changes nothing in the store and returns
\* False; for a batch without one it returns True and appends exactly one
\* 'not_started' row with the given source to every conversation of the
\* batch, and nothing else.
C2_AllOrNothing ==
    [][ (\/ Called("_start_tracking")
         \/ Called("get_unanalyzed_conversations")
         \/ Called("get_scheduled_conversations")) /\ ret'.r
        => IF \E c \in Range(ret'.batch) : Open(c) # {}
           THEN ~ret'.ok /\ UNCHANGED store
           ELSE /\ ret'.ok
                /\ \A c \in Convs :
                       ps_list'[c] =
                           IF c \in Range(ret'.batch)
                           THEN Append(ps_list[c],
                                       [status |-> "not_started",
                                        source |-> ret'.source,
                                        completed_at |-> NULL])
                           ELSE ps_list[c]
                /\ UNCHANGED << emails, reply_needed, schedules,
                                prepared_replies >> ]_vars

\* a batch of two conversations, one with an active process and one without,
\* met the conflict
C2_Witness ==
    /\ ret.op = "_start_tracking"
    /\ ~ret.ok
    /\ Len(ret.batch) = 2
    /\ \E c \in Range(ret.batch) : Open(c) = {}
    /\ \E c \in Range(ret.batch) : Open(c) # {}

\* C3: when two overlapping runs have both finished a tracking fetch that
\* covers the same conversation, they have not both started tracking.
C3_NoRace ==
    \A c \in Convs :
        ~ /\ runs[1].pc = "done" /\ runs[1].ok
          /\ runs[2].pc = "done" /\ runs[2].ok
          /\ c \in Range(runs[1].ids) \cap Range(runs[2].ids)

Settled(c) ==
    /\ \A i \in DOMAIN emails[c] : emails[c][i].analyzed /\ emails[c][i].processed
    /\ Open(c) = {}
    /\ ~reply_needed[c]

Unhandled(c) ==
    \E i \in DOMAIN emails[c] :
        /\ emails[c][i].role = "user"
        /\ ~emails[c][i].analyzed \/ ~emails[c][i].processed

\* C4: once a pass was killed, every conversation with a message of the user
\* that is not analyzed or not processed eventually has all its messages
\* analyzed and processed, reply_needed cleared and its ProcessRecord
\* completed, by a PreparedReply or by a no-reply outcome.
C4_Resumable ==
    \A c \in Convs : (kills > 0 /\ Unhandled(c)) ~> Settled(c)

\* C5: a step appends at most one PreparedReply to a conversation, never to a
\* conversation that got one earlier in the same pass, and never to one whose
\* last PreparedReply answered the same inbound messages and the same
\* Schedule row.
C5_NoDoubleSend ==
    [][ \A c \in Convs :
            Len(prepared_replies'[c]) > Len(prepared_replies[c])
            => /\ Len(prepared_replies'[c]) = Len(prepared_replies[c]) + 1
               /\ c \notin fresh
               /\ todo # << >>
               /\ Head(todo).c = c
               /\ answered[c] # Basis(Head(todo)) ]_vars

\* C6: after update_data_after_analysis(C, s, True) returned True,
\* reply_needed of C is true, every message of C is analyzed, the processed
\* flags are as before, and the ProcessRecord that was open has status
\* 'analyzed' and no completed_at.
C6_ReplyBranch ==
    [][ Called("update_data_after_analysis") /\ ret'.r /\ ret'.ok
        => LET c == ret'.c
           IN /\ reply_needed'[c]
              /\ DOMAIN emails'[c] = DOMAIN emails[c]
              /\ \A i \in DOMAIN emails[c] :
                     /\ emails'[c][i].analyzed
                     /\ emails'[c][i].processed = emails[c][i].processed
              /\ Cardinality(Open(c)) = 1
              /\ \A i \in Open(c) :
                     /\ ps_list'[c][i].status = "analyzed"
                     /\ ps_list'[c][i].completed_at = NULL ]_vars

\* the reply branch succeeded for a conversation with an unprocessed message
C6_Witness ==
    /\ ret.op = "update_data_after_analysis"
    /\ ret.r
    /\ ret.ok
    /\ \E i \in DOMAIN emails[ret.c] : ~emails[ret.c][i].processed

\* C7: after update_data_after_analysis(C, s, False) returned True,
\* reply_needed of C is false, every message of C is analyzed and processed,
\* the ProcessRecord that was open is 'completed' with completed_at set, and
\* with s given C has one Schedule row, with timestamp s.
C7_NoReplyBranch ==
    [][ Called("update_data_after_analysis") /\ ~ret'.r /\ ret'.ok
        => LET c == ret'.c
           IN /\ ~reply_needed'[c]
              /\ emails'[c] # << >>
              /\ \A i \in DOMAIN emails'[c] :
                     emails'[c][i].analyzed /\ emails'[c][i].processed
              /\ Cardinality(Open(c)) = 1
              /\ \A i \in Open(c) :
                     /\ ps_list'[c][i].status = "completed"
                     /\ ps_list'[c][i].completed_at # NULL
              /\ ret'.s # NULL
                 => /\ Len(schedules'[c]) = 1
                    /\ schedules'[c][1].timestamp = ret'.s ]_vars

\* the no-reply branch succeeded with a schedule given, for a conversation
\* that has been through an earlier cycle
C7_Witness ==
    /\ ret.op = "update_data_after_analysis"
    /\ ~ret.r
    /\ ret.ok
    /\ ret.s # NULL
    /\ Len(ps_list[ret.c]) = 2

\* C8: after update_data_after_step2(C, body) returned True, the
\* PreparedReplies of C are those before plus one with C's subject and body
\* (those of the other conversations are as before), reply_needed of C is
\* false, every message of C is processed and the ProcessRecord that was
\* open is 'completed' with completed_at set.
C8_ReplySaved ==
    [][ Called("update_data_after_step2") /\ ret'.ok
        => LET c == ret'.c
           IN /\ prepared_replies' =
                     [prepared_replies EXCEPT
                         ![c] = Append(@, [reply_subject |-> 100 + c,
                                           reply_message |-> ret'.body])]
              /\ ret'.body # NoBody
              /\ ~reply_needed'[c]
              /\ \A i \in DOMAIN emails'[c] : emails'[c][i].processed
              /\ Cardinality(Open(c)) = 1
              /\ \A i \in Open(c) :
                     /\ ps_list'[c][i].status = "completed"
                     /\ ps_list'[c][i].completed_at # NULL ]_vars

\* update_data_after_step2 succeeded for a conversation that needed a reply
C8_Witness ==
    /\ ret.op = "update_data_after_step2"
    /\ ret.ok
    /\ Len(prepared_replies[ret.c]) = 1
    /\ Len(ps_list[ret.c]) = 1

\* C9: update_schedule(C, ...) called with exactly one open ProcessRecord of
\* C leaves that record 'completed' with completed_at set, whatever its
\* arguments are and whatever it returns.
C9_AlwaysCloses ==
    [][ Called("update_schedule") /\ Cardinality(Open(ret'.c)) = 1
        => \A i \in Open(ret'.c) :
               /\ ps_list'[ret'.c][i].status = "completed"
               /\ ps_list'[ret'.c][i].completed_at # NULL ]_vars

\* C10: when manage_reminders returns, no conversation that
\* get_scheduled_conversations tracked in this pass has an open ProcessRecord.
C10_Phase3Closes ==
    (pc = "step3_loop" /\ todo = << >>) => \A c \in tracked : Open(c) = {}

\* a step of the loop of manage_reminders
RoundStep == pc = "step3_loop" /\ todo # << >> /\ (todo' # todo \/ pc' # pc)

\* C11: a round of manage_reminders for a conversation that is in
\* running_conversations (its update in step 1 or step 2 of this pass
\* succeeded) calls no policy and not analyze_conversation and changes nothing
\* in the store, and no round appends a PreparedReply for such a conversation.
C11_RunningSkipped ==
    [][ RoundStep
        => /\ \A c \in running : prepared_replies'[c] = prepared_replies[c]
           /\ Head(todo).c \in running
              => /\ round'.c = Head(todo).c
                 /\ round'.tried = 0
                 /\ ~round'.asked
                 /\ UNCHANGED store ]_vars

\* a conversation handled in step 1 or 2 with an overdue schedule was skipped
C11_Witness ==
    /\ pc = "step3_loop"
    /\ round.c \in running
    /\ round.c \in tracked
    /\ round.c \in Due(DB(Alive), now)
    /\ round.tried = 0

\* a step of the loop of manage_running_conversations
Round2Step == pc = "step2_loop" /\ todo # << >> /\ (todo' # todo \/ pc' # pc)

\* The round of step 2 failed: no reply was generated, or a sub-step of
\* update_data_after_step2 failed (no unprocessed email, or not exactly one
\* open ProcessRecord).
Step2Failed ==
    LET c == Head(todo).c
    IN \/ prepared_replies'[c] = prepared_replies[c]
       \/ \A i \in DOMAIN emails[c] : emails[c][i].processed
       \/ Cardinality(Open(c)) # 1

\* C12: a failed round of step 2 is remembered until the phase ends, and a
\* phase 2 with a failure ends the pass there: manage_reminders is not
\* entered and the store is left as it is (no step3 ProcessRecord).
C12_FailureSkipsPhase3 ==
    [][ /\ Round2Step /\ Step2Failed /\ pc' = "step2_loop" => any_errors'
        /\ pc = "step2_loop" /\ any_errors /\ pc' = "step2_loop" => any_errors'
        /\ pc = "step2_loop" /\ any_errors /\ pc' # "step2_loop"
              => pc' = "idle" /\ UNCHANGED store ]_vars

\* a pass ended after a failure in step 2 while a schedule was overdue
C12_Witness ==
    /\ pc = "idle"
    /\ last = "errors2"
    /\ Due(DB(Alive), now) # {}

\* get_unanalyzed_conversations(track=True) is about to find an open
\* ProcessRecord on a conversation of its batch
Conflict ==
    /\ pc = "step1"
    /\ \E c \in Unanalyzed(DB(Alive)) : Open(c) # {}

\* C13: a pass whose tracking fetch of step 1 meets a conflict ends there:
\* main enters neither manage_running_conversations nor manage_reminders,
\* and the store is left as it was.
C13_ConflictAborts ==
    [][ Conflict /\ pc' # pc => pc' = "idle" /\ UNCHANGED store ]_vars

\* a step of the loop of analyze_conversations
Round1Step == pc = "step1_loop" /\ todo # << >> /\ (todo' # todo \/ pc' # pc)

\* C14: a round of step 1 whose analysis reports an error stores what
\* update_data_after_analysis(c, None, True) stores: the conversation is
\* flagged reply_needed, so step 2 fetches it, its messages are analyzed,
\* its ProcessRecord is 'analyzed' and no schedule is written.
C14_FailsOpen ==
    [][ Round1Step /\ round'.verdict = "error"
        => LET c == Head(todo).c
           IN /\ round'.c = c
              /\ reply_needed'[c]
              /\ c \in NeedingReply(DB(Alive))'
              /\ c \in running'
              /\ schedules'[c] = schedules[c]
              /\ \A i \in DOMAIN emails'[c] : emails'[c][i].analyzed
              /\ \E i \in DOMAIN ps_list'[c] : ps_list'[c][i].status = "analyzed" ]_vars

\* the analysis of a conversation failed, step 1 went through and main is
\* about to call manage_running_conversations, which will fetch it
C14_Witness ==
    /\ pc = "step2"
    /\ round.verdict = "error"
    /\ round.c \in NeedingReply(DB(Alive))
    /\ round.c \in running

\* the timestamps of the Schedule rows of conversation c
Timestamps(rows) == [i \in DOMAIN rows |-> rows[i].timestamp]

\* C15: a round of manage_reminders in which the first policy whose
\* assertions hold defers to analyze_conversation and the analysis reports
\* an error stores no reminder, leaves the Schedule timestamp as it was, and
\* the loop goes on.
C15_FailsClosed ==
    [][ /\ RoundStep
        /\ ~Skipped(Head(todo))
        /\ round'.answer = "ask"
        /\ round'.verdict = "error"
        => LET c == Head(todo).c
           IN /\ prepared_replies'[c] = prepared_replies[c]
              /\ Timestamps(schedules'[c]) = Timestamps(schedules[c])
              /\ pc' = "step3_loop"
              /\ todo' = Tail(todo) ]_vars

\* C16: a round of step 2 in which generate_response returned nothing
\* leaves the store as it was (reply_needed, PreparedReplies, flags and
\* ProcessRecords), and the loop goes on with the next conversation.
C16_FailureTouchesNothing ==
    [][ Round2Step /\ round'.body = NoBody
        => /\ round'.c = Head(todo).c
           /\ UNCHANGED store
           /\ reply_needed'[Head(todo).c]
           /\ pc' = "step2_loop"
           /\ todo' = Tail(todo) ]_vars

\* the generation failed for one conversation, which still needs its
\* reply, and the loop has another conversation to go
C16_Witness ==
    /\ pc = "step2_loop"
    /\ round.body = NoBody
    /\ reply_needed[round.c]
    /\ prepared_replies[round.c] = << >>
    /\ todo # << >>

\* C17: after a pass that ended because generate_response returned nothing
\* for a conversation, the next main is not turned away by the guard on
\* open ProcessRecords: once the prepared replies are sent it reaches step 2
\* again, where the conversation, still flagged, is retried.
C17_RetriedNextPass ==
    /\ pc = "idle"
    /\ last = "errors2"
    /\ round.body = NoBody
    /\ reply_needed[round.c]
    /\ all_replies_sent(DB(Alive))
    => all_processes_completed(DB(Alive)) \/ RESTART

\* C18: when a round of step 2 has saved the reply and
\* update_data_after_step2 succeeded for conversation c, c is no longer
\* flagged reply_needed and all its messages are analyzed, so that
\* get_unanalyzed_conversations on the unchanged store does not return c
\* and an analysis pass cannot flag it again.
C18_Idempotent ==
    [][ Round2Step /\ ~Step2Failed
        => LET c == Head(todo).c
           IN /\ ~reply_needed'[c]
              /\ c \notin Unanalyzed(DB(Alive))' ]_vars

\* C19: a round of manage_reminders that is not skipped calls the policies
\* in the order BestPolicy, WaitForSchedulePolicy, EarlyReminderPolicy,
\* LateReminderPolicy, SecondReminderPolicy, AskAgentPolicy, DefaultPolicy up
\* to the first whose assertions hold, and no further; the answer of that
\* policy is the decision of the round: on False the round ends there and
\* the loop goes on, and analyze_conversation is called exactly when the
\* answer defers to it.
C19_PolicyPriority ==
    [][ RoundStep /\ ~Skipped(Head(todo))
        => LET order == << "BestPolicy", "WaitForSchedulePolicy",
                           "EarlyReminderPolicy", "LateReminderPolicy",
                           "SecondReminderPolicy", "AskAgentPolicy",
                           "DefaultPolicy" >>
           IN /\ \E i \in DOMAIN order :
                    /\ order[i] = round'.policy
                    /\ round'.tried = i
              /\ round'.asked <=> round'.answer = "ask"
              /\ round'.answer = "false"
                    => pc' = "step3_loop" /\ UNCHANGED store ]_vars

\* C20: after a round of manage_reminders in which a policy applies to the
\* conversation and its answer is not False (a reminder is due, or the
\* analysis decides), the Schedule row of the conversation carries the name
\* of that policy as last_policy, which is what the next fetch returns.
C20_LastPolicyRecorded ==
    [][ RoundStep /\ ~Skipped(Head(todo)) /\ round'.answer \in {"true", "ask"}
        => LET c == Head(todo).c
           IN /\ schedules'[c] # << >>
              /\ \A i \in DOMAIN schedules'[c] :
                    schedules'[c][i].last_policy = round'.policy ]_vars

\* a schedule due today with no reminder sent, at or past 9:00 for the user
DueTodayPast9(x) ==
    /\ x.due_time.day = x.now.day
    /\ x.reminder_sent = 0
    /\ user_hour(x) >= reminder_time

\* C21: for a schedule due today with zero reminders sent, at or past 9:00
\* in the user's time zone, the loop of manage_reminders applies
\* EarlyReminderPolicy with the answer True, whatever the messages: every
\* policy that stands before it in REMINDER_POLICIES raises, and
\* EarlyReminderPolicy answers True.
C21_EarlyFirst ==
    /\ ret.op = "manage_reminders" /\ DueTodayPast9(ret.x)
       => ret.policy = "EarlyReminderPolicy" /\ ret.out = "true"
    /\ ret.op = "process_schedule" /\ DueTodayPast9(ret.x)
       => /\ ret.policy \in {"BestPolicy", "ImmediateResponsePolicy",
                              "WaitForSchedulePolicy"} => ret.out = "raise"
          /\ ret.policy = "EarlyReminderPolicy" => ret.out = "true"

\* a schedule that was due on the previous day, at least
\* late_waiting_time ago, with no reminder sent
DueYesterday(x) ==
    /\ x.due_time.day.ord = x.now.day.ord - 1
    /\ Hours(x.now) - Hours(x.due_time) >= late_waiting_time
    /\ x.reminder_sent = 0

\* C22: for a schedule due on the previous day, at least an hour ago, with
\* zero reminders sent, the loop of manage_reminders applies
\* LateReminderPolicy with the answer True (the name it records as
\* last_policy): every policy that stands before it in REMINDER_POLICIES
\* raises, and LateReminderPolicy answers True.
C22_LateReminder ==
    /\ ret.op = "manage_reminders" /\ DueYesterday(ret.x)
       => ret.policy = "LateReminderPolicy" /\ ret.out = "true"
    /\ ret.op = "process_schedule" /\ DueYesterday(ret.x)
       => /\ ret.policy \in {"BestPolicy", "ImmediateResponsePolicy",
                              "WaitForSchedulePolicy", "EarlyReminderPolicy"}
                => ret.out = "raise"
          /\ ret.policy = "LateReminderPolicy" => ret.out = "true"

C24_AllSubSteps ==
    [][ Called("update_data_after_analysis")
        => LET c == ret'.c
           IN /\ ret'.ok <=>
                    /\ ret'.s # NULL => Len(schedules[c]) <= 1
                    /\ \E i \in DOMAIN emails[c] : ~emails[c][i].analyzed
                    /\ Cardinality(Open(c)) = 1
                    /\ ~ret'.r => \E i \in DOMAIN emails[c] : ~emails[c][i].processed
              /\ Open(c) = {} => ~ret'.ok ]_vars

\* the call returned False for a conversation that was never tracked; its
\* messages were unanalyzed and are analyzed now
C24_Witness ==
    /\ ret.op = "update_data_after_analysis"
    /\ ~ret.ok
    /\ ps_list[ret.c] = << >>
    /\ emails[ret.c] # << >>
    /\ \A i \in DOMAIN emails[ret.c] :
           emails[ret.c][i].analyzed /\ ~emails[ret.c][i].processed
    /\ reply_needed[ret.c]

\* C25: no step of a pass and no arrival of a message removes a message or
\* takes an analyzed or processed flag back from true to false.
C25_FlagsMonotonic ==
    [][ \A c \in Convs : \A i \in DOMAIN emails[c] :
            /\ i \in DOMAIN emails'[c]
            /\ emails[c][i].analyzed => emails'[c][i].analyzed
            /\ emails[c][i].processed => emails'[c][i].processed ]_vars

\* a conversation whose first message was analysed and processed and kept
\* its flags while a second message arrived
C25_Witness ==
    \E c \in Convs :
        /\ Len(emails[c]) = 2
        /\ emails[c][1].analyzed /\ emails[c][1].processed
        /\ ~emails[c][2].analyzed /\ ~emails[c][2].processed
        /\ ps_list[c] # << >>

\* C26: a ProcessRecord has completed_at set exactly when its status is
\* 'completed'.
C26_CompletedAt ==
    \A c \in Convs : \A i \in DOMAIN ps_list[c] :
        ps_list[c][i].completed_at # NULL <=> ps_list[c][i].status = "completed"

\* C27: a call of update_data_after_analysis or update_schedule, with any
\* timestamp, num_reminders and last_policy, leaves at most one Schedule
\* row to every conversation that had at most one; and for a conversation
\* with more than one row _update_schedule changes no row and the call
\* reports failure.
C27_OneScheduleRow ==
    [][ Called("update_data_after_analysis") \/ Called("update_schedule")
        => /\ \A c \in Convs :
                Len(schedules[c]) <= 1 => Len(schedules'[c]) <= 1
           /\ Len(schedules[ret'.c]) > 1
                => /\ schedules' = schedules
                   /\ ret'.op = "update_schedule" \/ ret'.s # NULL
                        => ~ret'.ok /\ ~ret'.raised ]_vars

\* update_schedule was called with a timestamp and num_reminders for a
\* conversation without a Schedule row, which has one row now
C27_Witness ==
    /\ ret.op = "update_schedule"
    /\ ret.s # NULL
    /\ ret.num # NULL
    /\ Len(schedules[ret.c]) = 1
    /\ schedules[ret.c][1].timestamp = ret.s
    /\ schedules[ret.c][1].num_reminders = NULL

C29_CyclesComplete ==
    pc = "idle" /\ all_replies_sent(DB(Alive))
        => all_processes_completed(DB(Alive)) \/ RESTART

\* C30: WaitForSchedulePolicy, called with the messages it can read (Date
\* is a datetime) and no mail just received, is applicable exactly when the
\* last message is more than max_delay old, and then answers False when the
\* due time falls on a later calendar day than now and 'ask agent'
\* otherwise, whatever the month of the two dates.
C30_WaitByCalendarDay ==
    /\ ret.op = "process_schedule"
    /\ ret.policy = "WaitForSchedulePolicy"
    /\ ret.x.messages = "datetime"
    /\ ~ret.x.just_got_user_mail
    => /\ ret.out # "raise" <=> ret.x.age > max_delay
       /\ ret.out # "raise"
            => ret.out = IF ret.x.due_time.day.ord > ret.x.now.day.ord
                         THEN "false" ELSE "ask"

\* C31: EarlyReminderPolicy answers only for a schedule that is due today
\* and for which no reminder was sent yet; when the due date is another
\* day or a reminder was sent already it raises, so that the loop goes on
\* to the later policies.
C31_EarlyOnlyFirstReminder ==
    /\ ret.op = "process_schedule"
    /\ ret.policy = "EarlyReminderPolicy"
    /\ ret.x.due_time.day # ret.x.now.day \/ Truthy(ret.x.reminder_sent)
    => ret.out = "raise"

\* hours between the due time and now
Elapsed(x) == Hours(x.now) - Hours(x.due_time)

\* C32, as claimed: LateReminderPolicy answers True exactly when at least
\* late_waiting_time has elapsed since the due time and no reminder was
\* sent, SecondReminderPolicy exactly when at least second_waiting_time has
\* elapsed and fewer than 2 reminders were sent; otherwise they raise.
C32_ThresholdsAlone ==
    ret.op = "process_schedule"
    => /\ ret.policy = "LateReminderPolicy"
          => (ret.out = "true"
                <=> Elapsed(ret.x) >= late_waiting_time
                    /\ ~Truthy(ret.x.reminder_sent))
       /\ ret.policy = "SecondReminderPolicy"
          => (ret.out = "true"
                <=> Elapsed(ret.x) >= second_waiting_time
                    /\ (ret.x.reminder_sent = NULL \/ ret.x.reminder_sent < 2))

\* C32, amended: when no mail of the user was just received,
\* LateReminderPolicy answers True exactly when at least late_waiting_time
\* has elapsed since the due time (inclusive) and no reminder was sent, and
\* SecondReminderPolicy exactly when at least second_waiting_time has
\* elapsed (inclusive) and fewer than 2 reminders were sent; in every
\* other case, and whenever a mail of the user was just received, they
\* raise.
C32_Thresholds ==
    ret.op = "process_schedule"
    => /\ ret.policy \in {"LateReminderPolicy", "SecondReminderPolicy"}
          => ret.out \in {"true", "raise"}
       /\ ret.policy = "LateReminderPolicy"
          => (ret.out = "true"
                <=> /\ ~ret.x.just_got_user_mail
                    /\ Elapsed(ret.x) >= late_waiting_time
                    /\ ~Truthy(ret.x.reminder_sent))
       /\ ret.policy = "SecondReminderPolicy"
          => (ret.out = "true"
                <=> /\ ~ret.x.just_got_user_mail
                    /\ Elapsed(ret.x) >= second_waiting_time
                    /\ (ret.x.reminder_sent = NULL \/ ret.x.reminder_sent < 2))

\* LateReminderPolicy answered True exactly late_waiting_time after the due
\* time
C32_Witness ==
    /\ ret.op = "process_schedule"
    /\ ret.policy = "LateReminderPolicy"
    /\ Elapsed(ret.x) = late_waiting_time
    /\ ret.x.reminder_sent = 0
    /\ ret.out = "true"

\* manage_reminders is entered while a conversation with a due schedule
\* has an active ProcessRecord
Conflict3 ==
    /\ pc = "step3"
    /\ \E c \in Due(DB(Alive), now) : Open(c) # {}

\* C33: when get_scheduled_conversations(track=True) meets an active
\* ProcessRecord and returns the conflict result, manage_reminders calls no
\* policy, writes nothing to the store and returns normally: the pass ends
\* as a pass without due schedules ends, not with an exception.
C33_ConflictReturns ==
    [][ Conflict3 /\ pc' # pc
        => /\ UNCHANGED store
           /\ round' = NoRound
           /\ pc' = "idle"
           /\ last' = "completed" ]_vars

\* C34: a change of the status of the open ProcessRecord of a conversation,
\* to 'analyzed' or to 'completed', leaves status and completed_at of every
\* record of the conversation that was completed before as they were.
C34_HistoricRecordsKept ==
    [][ \A c \in Convs : \A i \in DOMAIN ps_list[c] :
            ~IsActive(ps_list[c][i])
            => /\ i \in DOMAIN ps_list'[c]
               /\ ps_list'[c][i].status = ps_list[c][i].status
               /\ ps_list'[c][i].completed_at = ps_list[c][i].completed_at ]_vars

\* a PreparedReply is unsent, or a ProcessRecord is not completed and
\* RESTART is off
Blocked ==
    \/ \E c \in Convs : prepared_replies[c] # << >>
    \/ /\ ~RESTART
       /\ \E c \in Convs : \E i \in DOMAIN ps_list[c] :
              ps_list[c][i].status # "completed"

\* C35: between two passes, while a PreparedReply is unsent or a
\* ProcessRecord is not completed (RESTART off), main starts no phase and
\* nothing of what a phase writes changes in the store: no ProcessRecord,
\* no flag of a conversation or of a stored email, no Schedule, no new
\* PreparedReply. A pass starts only from a store without unsent reply and
\* without a record that is not completed, and starting changes nothing.
C35_EntryGuard ==
    [][ /\ pc = "idle" /\ Blocked
           => /\ pc' = "idle"
              /\ ps_list' = ps_list
              /\ reply_needed' = reply_needed
              /\ schedules' = schedules
              /\ \A c \in Convs :
                    /\ Len(prepared_replies'[c]) <= Len(prepared_replies[c])
                    /\ \A i \in DOMAIN emails[c] : emails'[c][i] = emails[c][i]
        /\ pc = "idle" /\ pc' # "idle"
           => /\ ~Blocked
              /\ pc' = "step1"
              /\ UNCHANGED store ]_vars

\* main is invoked while a reply is unsent and a message waits for its
\* analysis
C35_Witness ==
    /\ pc = "idle"
    /\ last # "none"
    /\ \E c \in Convs : prepared_replies[c] # << >>
    /\ Unanalyzed(DB(Alive)) # {}

\* C36: a round of manage_reminders that is not skipped acts on a decision
\* that is defined and is the conversation's own: reply_needed is the
\* answer of the first policy whose assertions hold for the conversation
\* (or, when that policy defers, of the analysis of its messages), whatever
\* the rounds before it decided, and the loop goes on to the next
\* conversation.
C36_OwnDecision ==
    [][ RoundStep /\ ~Skipped(Head(todo))
        => /\ pc' = "step3_loop"
           /\ rn' \in {"true", "false"}
           /\ round'.answer = "true" => rn' = "true"
           /\ round'.answer = "false" => rn' = "false"
           /\ round'.answer = "ask" => (rn' = "true" <=> round'.verdict = "due") ]_vars

\* update_data_after_step2 is called as the round of manage_reminders calls
\* it to save a reminder: for the conversation of the round, tracked by
\* step 3 and not skipped
SavesReminder ==
    /\ Called("update_data_after_step2")
    /\ pc = "step3_loop"
    /\ ~Skipped(Head(todo))
    /\ ret'.c = Head(todo).c

\* C37: when a reminder is saved for a conversation in step 3 (a
\* PreparedReply is appended), num_reminders of the Schedule row of the
\* conversation is greater afterwards than it was, so that a later pass
\* sees the reminder as sent.
C37_ReminderCounted ==
    [][ SavesReminder
        /\ Len(prepared_replies'[ret'.c]) > Len(prepared_replies[ret'.c])
        => LET c == ret'.c
           IN /\ schedules'[c] # << >>
              /\ \A i \in DOMAIN schedules'[c] :
                    /\ i \in DOMAIN schedules[c]
                    /\ schedules'[c][i].num_reminders # NULL
                    /\ schedules'[c][i].num_reminders
                         > (IF schedules[c][i].num_reminders = NULL THEN 0
                            ELSE schedules[c][i].num_reminders) ]_vars

\* C38: update_data_after_step2, called to save a reminder for a
\* conversation whose messages are all processed, appends the
\* PreparedReply, closes the ProcessRecord and returns True; and whenever
\* update_data_after_step2 returns False, the reply was not saved, or
\* reply_needed was not cleared, or the ProcessRecord was not closed.
C38_ReminderSavedReportsSuccess ==
    [][ /\ SavesReminder
           /\ (\A i \in DOMAIN emails[ret'.c] : emails[ret'.c][i].processed)
           => /\ Len(prepared_replies'[ret'.c]) = Len(prepared_replies[ret'.c]) + 1
              /\ Cardinality(Open(ret'.c)) = 1
              /\ \A i \in DOMAIN ps_list'[ret'.c] : ~IsActive(ps_list'[ret'.c][i])
              /\ ret'.ok
        /\ Called("update_data_after_step2") /\ ~ret'.ok
           => \/ Len(prepared_replies'[ret'.c]) = Len(prepared_replies[ret'.c])
              \/ reply_needed'[ret'.c]
              \/ Cardinality(Open(ret'.c)) # 1
              \/ \E i \in DOMAIN ps_list'[ret'.c] : IsActive(ps_list'[ret'.c][i]) ]_vars

\* C39: two passes that are both in manage_running_conversations while a
\* conversation has reply_needed = 1 append at most one PreparedReply for
\* it: a round of this pass appends no PreparedReply for a conversation the
\* other pass has answered.
C39_NoDoubleReply ==
    [][ Round2Step /\ runs[2].source = "step2"
        => \A c \in Range(runs[2].ids) :
               runs[2].ok => Len(prepared_replies'[c]) <= Len(prepared_replies[c]) ]_vars

====
